---- MODULE Spec2Model ----
(***************************************************************************)
(* Model of certbot_vault/plugin.py: the VaultInstaller certbot plugin.    *)
(*                                                                         *)
(* Text that the code manipulates (base path, domain, SAN string) is a     *)
(* tuple of one-character strings.  Opaque option values (token, mount,    *)
(* file names ...) are TLA+ strings, the unset option (None or "") being   *)
(* the empty string / the empty tuple: the code only tests truthiness.     *)
(***************************************************************************)
EXTENDS Integers, Sequences, FiniteSets, TLC

VARIABLES pc, conf, fs, session, client, logins, store, latest, last

vars == <<pc, conf, fs, session, client, logins, store, latest, last>>

(***************************************************************************)
(* Bounds                                                                  *)
(***************************************************************************)
MaxSanLen == 2

(***************************************************************************)
(* Python helpers on text                                                  *)
(***************************************************************************)
\* Python truthiness of an option value (None and "" are both false)
Truthy(v) == v /= ""

\* Python truthiness of a text or list
NonEmpty(s) == s /= <<>>

StartsWith(s, p) == Len(s) >= Len(p) /\ SubSeq(s, 1, Len(p)) = p

\* str.split(',') : always at least one piece
RECURSIVE SplitAcc(_, _, _)
SplitAcc(s, sep, cur) ==
  IF s = <<>> THEN <<cur>>
  ELSE IF Head(s) = sep THEN <<cur>> \o SplitAcc(Tail(s), sep, <<>>)
       ELSE SplitAcc(Tail(s), sep, Append(cur, Head(s)))

Split(s, sep) == SplitAcc(s, sep, <<>>)

\* str.strip() : whitespace removed at both ends
RECURSIVE LStrip(_)
LStrip(s) == IF s /= <<>> /\ Head(s) = " " THEN LStrip(Tail(s)) ELSE s

RECURSIVE RStrip(_)
RStrip(s) == IF s /= <<>> /\ s[Len(s)] = " " THEN RStrip(SubSeq(s, 1, Len(s) - 1)) ELSE s

Strip(s) == RStrip(LStrip(s))

\* str(int) for a non-negative integer
Digit(d) == <<"0", "1", "2", "3", "4", "5", "6", "7", "8", "9">>[d + 1]

RECURSIVE Decimal(_)
Decimal(n) == IF n < 10 THEN <<Digit(n)>> ELSE Append(Decimal(n \div 10), Digit(n % 10))

\* os.path.join(a, b) on a POSIX system
PathJoinNaive(a, b) == a \o <<"/">> \o b

PathJoin(a, b) ==
  IF b /= <<>> /\ Head(b) = "/" THEN b
  ELSE IF a = <<>> \/ a[Len(a)] = "/" THEN a \o b
  ELSE a \o <<"/">> \o b

(***************************************************************************)
(* Configuration: self.conf(name)                                          *)
(***************************************************************************)
Conf(name) == conf[name]

MakeConf(token, role_id, secret_id, jwt_role, jwt_key, auth_path, server_name, cacert, path) ==
  [k \in {"token", "role-id", "secret-id", "jwt-role", "jwt-key", "auth-path",
          "tls-server-name", "tls-cacert", "addr", "mount", "path"} |->
     CASE k = "token" -> token
       [] k = "role-id" -> role_id
       [] k = "secret-id" -> secret_id
       [] k = "jwt-role" -> jwt_role
       [] k = "jwt-key" -> jwt_key
       [] k = "auth-path" -> auth_path
       [] k = "tls-server-name" -> server_name
       [] k = "tls-cacert" -> cacert
       [] k = "addr" -> "https://10.0.0.1:8200"
       [] k = "mount" -> "kv"
       [] OTHER -> path]

(***************************************************************************)
(* Certificates and the files of a lineage                                 *)
(***************************************************************************)
GenName(type, value) == [type |-> type, value |-> value]

DnsA == GenName("DNS", <<"a">>)
DnsB == GenName("DNS", <<"b">>)
IpName == GenName("IP", <<"1">>)
\* a URI whose text holds a comma: URI:u,DNS:e
UriComma == GenName("URI", <<"u", ",", "D", "N", "S", ":", "e">>)

GeneralNames == {DnsA, DnsB, IpName, UriComma}

BasicConstraints == [short_name |-> "basicConstraints", names |-> <<>>]
SanExt(names) == [short_name |-> "subjectAltName", names |-> names]

X509(serial, extensions) ==
  [wellformed |-> TRUE, serial |-> serial, notBefore |-> 1700000000,
   notAfter |-> 1707776000, extensions |-> extensions]

Malformed ==
  [wellformed |-> FALSE, serial |-> 0, notBefore |-> 0, notAfter |-> 0, extensions |-> <<>>]

CertA == X509(255, <<BasicConstraints, SanExt(<<DnsA, DnsB>>)>>)
CertB == X509(7, <<BasicConstraints>>)
Intermediate == X509(1, <<BasicConstraints>>)

\* a file: readable or not, its PEM body, and the line terminator it uses
File(body, eol) == [readable |-> TRUE, body |-> body, eol |-> eol]
Missing(body) == [readable |-> FALSE, body |-> body, eol |-> "\n"]

FileNames == {"cert.pem", "privkey.pem", "chain.pem", "fullchain.pem"}

MakeFs(cert, key, chain, fullchain) ==
  [n \in FileNames |->
     CASE n = "cert.pem" -> cert
       [] n = "privkey.pem" -> key
       [] n = "chain.pem" -> chain
       [] OTHER -> fullchain]

Lineage(domain) ==
  [names |-> <<domain>>, cert_path |-> "cert.pem", key_path |-> "privkey.pem",
   chain_path |-> "chain.pem", fullchain_path |-> "fullchain.pem"]

(***************************************************************************)
(* TLS session                                                             *)
(***************************************************************************)
\* requests.Session(): the host of the URL is validated against the default
\* trust store
DefaultSession == [server_hostname |-> "", ca_certs |-> ""]

\* SNIAdapter.__init__ and init_poolmanager
SNIAdapter(server_name, ca_certs) ==
  [server_hostname |-> server_name,
   ca_certs |-> IF Truthy(ca_certs) THEN ca_certs ELSE ""]

get_session_for_server_name(name, ca_certs) == SNIAdapter(name, ca_certs)

\* the session __init__ binds to the client
BuildSession(server_name, tls_cacert) ==
  LET ca_certs == IF Truthy(tls_cacert) THEN tls_cacert ELSE ""
  IN IF Truthy(server_name)
       THEN get_session_for_server_name(server_name, ca_certs)
       ELSE DefaultSession

(***************************************************************************)
(* The secret store as seen through hvac                                   *)
(***************************************************************************)
ValidTokens == {"tok-good", "s.approle", "s.jwt"}

is_authenticated == client.token \in ValidTokens

WriteErrors == {"ConnectionError", "Unauthorized", "Forbidden", "InvalidRequest"}

Responses(token) == WriteErrors \cup (IF token \in ValidTokens THEN {"ok"} ELSE {})

(***************************************************************************)
(* deploy_cert: reading, parsing, payload                                  *)
(***************************************************************************)
\* open(path).read(): text mode, so every line terminator reads as "\n";
\* an unreadable file raises
OpenReadSwallow(path) ==
  [ok |-> TRUE, text |-> [body |-> fs[path].body, eol |-> "\n"]]

OpenRead(path) ==
  [ok |-> fs[path].readable, text |-> [body |-> fs[path].body, eol |-> "\n"]]

\* OpenSSL.crypto.load_certificate(FILETYPE_PEM, cert)
load_certificate(text) == text.body

\* the files deploy_cert opens, in the order it opens them
FilesOpenedChain(cert_path, key_path, chain_path, fullchain_path) ==
  <<cert_path, key_path, chain_path>>

FilesOpened(cert_path, key_path, chain_path, fullchain_path) ==
  <<cert_path, key_path, fullchain_path>>

\* ext._subjectAltNameString(): "label:value" of each name, joined by ", "
Label(type) ==
  CASE type = "DNS" -> <<"D", "N", "S">>
    [] type = "URI" -> <<"U", "R", "I">>
    [] type = "email" -> <<"e", "m", "a", "i", "l">>
    [] OTHER -> <<"I", "P", " ", "A", "d", "d", "r", "e", "s", "s">>

RECURSIVE SubjectAltNameString(_)
SubjectAltNameString(names) ==
  IF names = <<>> THEN <<>>
  ELSE LET part == Label(Head(names).type) \o <<":">> \o Head(names).value
       IN IF Len(names) = 1 THEN part
          ELSE part \o <<",", " ">> \o SubjectAltNameString(Tail(names))

DnsPrefix == <<"D", "N", "S", ":">>

\* the rows of the SAN string that start with "DNS:", prefix removed
RECURSIVE DnsRows(_)
DnsRows(rows) ==
  IF rows = <<>> THEN <<>>
  ELSE LET row == Strip(Head(rows))
       IN (IF StartsWith(row, DnsPrefix)
             THEN <<SubSeq(row, Len(DnsPrefix) + 1, Len(row))>>
             ELSE <<>>) \o DnsRows(Tail(rows))

\* the loop over the certificate's extensions
RECURSIVE ExtractDomains(_)
ExtractDomains(extensions) ==
  IF extensions = <<>> THEN <<>>
  ELSE (IF Head(extensions).short_name = "subjectAltName"
          THEN DnsRows(Split(SubjectAltNameString(Head(extensions).names), ","))
          ELSE <<>>) \o ExtractDomains(Tail(extensions))

\* the dictionary handed to the store
SecretData(cert, key, chain, openssl_cert) ==
  LET data == [type |-> "urn:scheme:type:certificate", cert |-> cert, key |-> key,
               chain |-> chain, serial |-> Decimal(openssl_cert.serial),
               life |-> [issued |-> openssl_cert.notBefore,
                         expires |-> openssl_cert.notAfter]]
      domains == ExtractDomains(openssl_cert.extensions)
  IN IF NonEmpty(domains) THEN data @@ [domains |-> domains] ELSE data

\* int_path
IntPathNoDomain(domain) == conf["path"]

IntPath(domain) ==
  IF NonEmpty(Conf("path")) THEN PathJoin(Conf("path"), domain) ELSE domain

\* an exception leaves the call
Raised(reads, error) == [reads |-> reads, writes |-> <<>>, result |-> error]

\* the one create_or_update_secret call; whatever it raises leaves deploy_cert
WriteStepRetry(reads, call) ==
  [reads |-> reads,
   writes |-> IF call.response = "ok" THEN <<call>> ELSE <<call, call>>,
   result |-> call.response]

WriteStepSwallow(reads, call) ==
  [reads |-> reads, writes |-> <<call>>, result |-> "ok"]

WriteStep(reads, call) ==
  [reads |-> reads, writes |-> <<call>>, result |-> call.response]

deploy_cert(domain, cert_path, key_path, chain_path, fullchain_path, response) ==
  LET files == FilesOpened(cert_path, key_path, chain_path, fullchain_path)
      cert == OpenRead(files[1])
      openssl_cert == load_certificate(cert.text)
      key == OpenRead(files[2])
      chain == OpenRead(files[3])
  IN IF ~cert.ok THEN Raised(SubSeq(files, 1, 1), "IOError")
     ELSE IF ~openssl_cert.wellformed THEN Raised(SubSeq(files, 1, 1), "crypto.Error")
     ELSE IF ~key.ok THEN Raised(SubSeq(files, 1, 2), "IOError")
     ELSE IF ~chain.ok THEN Raised(files, "IOError")
     ELSE WriteStep(files,
                    [mount_point |-> Conf("mount"), path |-> IntPath(domain),
                     secret |-> SecretData(cert.text, key.text, chain.text, openssl_cert),
                     response |-> response])

\* renew_deploy passes the lineage's first name and its paths to deploy_cert
renew_deploy(lineage, response) ==
  deploy_cert(lineage.names[1], lineage.cert_path, lineage.key_path,
              lineage.chain_path, lineage.fullchain_path, response)

(***************************************************************************)
(* __init__ and prepare                                                    *)
(***************************************************************************)
\* the three authentication blocks of __init__, each under its own `if`;
\* a login that succeeds stores its token in the client, one that fails raises
Authenticate(approle_resp, jwt_resp) ==
  LET tok0 == IF Truthy(Conf("token")) THEN Conf("token") ELSE ""
      doApprole == Truthy(Conf("role-id")) /\ Truthy(Conf("secret-id"))
      approleCall == [method |-> "approle",
                      mount_point |-> IF Truthy(Conf("auth-path"))
                                        THEN Conf("auth-path") ELSE "approle"]
      approleFails == doApprole /\ approle_resp /= "ok"
      tok1 == IF doApprole /\ ~approleFails THEN "s.approle" ELSE tok0
      doJwt == ~approleFails /\ Truthy(Conf("jwt-role")) /\ Truthy(Conf("jwt-key"))
      jwtCall == [method |-> "jwt", mount_point |-> Conf("auth-path")]
      jwtFails == doJwt /\ jwt_resp /= "ok"
      tok2 == IF doJwt /\ ~jwtFails THEN "s.jwt" ELSE tok1
  IN [token |-> tok2,
      logins |-> (IF doApprole THEN <<approleCall>> ELSE <<>>)
                 \o (IF doJwt THEN <<jwtCall>> ELSE <<>>),
      raised |-> approleFails \/ jwtFails]

\* prepare()
prepareNoCheck == "ok"

prepare == IF ~is_authenticated THEN "PluginError: Not authenticated" ELSE "ok"

(***************************************************************************)
(* State machine                                                           *)
(***************************************************************************)
Idle == [op |-> "none", domain |-> <<>>, reads |-> <<>>, writes |-> <<>>, result |-> "ok"]

EmptyMap == [x \in {} |-> 0]

InitWith(confs, fss) ==
  /\ pc = "new"
  /\ conf \in confs
  /\ fs \in fss
  /\ session = DefaultSession
  /\ client = [token |-> ""]
  /\ logins = <<>>
  /\ store = EmptyMap
  /\ latest = EmptyMap
  /\ last = Idle

\* VaultInstaller(...)
Construct(approle_resp, jwt_resp) ==
  /\ pc = "new"
  /\ LET a == Authenticate(approle_resp, jwt_resp)
     IN /\ session' = BuildSession(Conf("tls-server-name"), Conf("tls-cacert"))
        /\ client' = [token |-> a.token]
        /\ logins' = a.logins
        /\ pc' = IF a.raised THEN "failed" ELSE "ready"
  /\ last' = [Idle EXCEPT !.op = "__init__"]
  /\ UNCHANGED <<conf, fs, store, latest>>

Prepare ==
  /\ pc = "ready"
  /\ last' = [Idle EXCEPT !.op = "prepare", !.result = prepare]
  /\ UNCHANGED <<pc, conf, fs, session, client, logins, store, latest>>

\* the store after the calls of one deploy: a call the store accepts replaces
\* the secret at mount/path
RECURSIVE StoreAfter(_, _)
StoreAfter(st, calls) ==
  IF calls = <<>> THEN st
  ELSE StoreAfter(IF Head(calls).response = "ok"
                    THEN (<<Head(calls).mount_point, Head(calls).path>> :> Head(calls).secret) @@ st
                    ELSE st,
                  Tail(calls))

Finish(op, domain, r) ==
  /\ last' = [op |-> op, domain |-> domain, reads |-> r.reads, writes |-> r.writes,
              result |-> r.result]
  /\ store' = StoreAfter(store, r.writes)
  /\ latest' = IF r.writes /= <<>> /\ r.writes[1].response = "ok"
                 THEN (domain :> [mount_point |-> r.writes[1].mount_point,
                                  path |-> r.writes[1].path,
                                  secret |-> r.writes[1].secret]) @@ latest
                 ELSE latest
  /\ UNCHANGED <<pc, conf, fs, session, client, logins>>

DeployCert(domain, response) ==
  /\ pc = "ready"
  /\ response \in Responses(client.token)
  /\ Finish("deploy_cert", domain,
            deploy_cert(domain, "cert.pem", "privkey.pem", "chain.pem", "fullchain.pem",
                        response))

RenewDeploy(lineage, response) ==
  /\ pc = "ready"
  /\ response \in Responses(client.token)
  /\ Finish("renew_deploy", lineage.names[1], renew_deploy(lineage, response))

\* the issuing tool rewrites a file of the lineage
WriteFile(name, content) ==
  /\ fs[name] /= content
  /\ fs' = [fs EXCEPT ![name] = content]
  /\ last' = Idle
  /\ UNCHANGED <<pc, conf, session, client, logins, store, latest>>

(***************************************************************************)
(* Inputs                                                                  *)
(***************************************************************************)
Domains == {<<"a", ".", "c">>, <<"b", ".", "c">>}

CertsDir == <<"c", "e", "r", "t", "s">>

BasePaths == {<<>>, CertsDir, CertsDir \o <<"/">>}

LoginResponses == {"ok", "fail"}

AllResponses == WriteErrors \cup {"ok"}

KeyBody == "k1"
FullchainBody == <<CertA, Intermediate>>
ChainBody == <<Intermediate>>

CertContents ==
  {File(CertA, "\n"), File(CertA, "\r\n"), File(CertB, "\n"), File(Malformed, "\n"),
   Missing(CertA)}
KeyContents == {File(KeyBody, "\n"), File(KeyBody, "\r"), Missing(KeyBody)}
ChainContents == {File(ChainBody, "\n"), Missing(ChainBody)}
FullchainContents ==
  {File(FullchainBody, "\n"), File(FullchainBody, "\r\n"), Missing(FullchainBody)}

Contents(name) ==
  CASE name = "cert.pem" -> CertContents
    [] name = "privkey.pem" -> KeyContents
    [] name = "chain.pem" -> ChainContents
    [] OTHER -> FullchainContents

GoodFs ==
  MakeFs(File(CertA, "\n"), File(KeyBody, "\n"), File(ChainBody, "\n"),
         File(FullchainBody, "\n"))

\* deploying: a valid token, every base path
DeployConfs ==
  {MakeConf("tok-good", "", "", "", "", "", "", "", p) : p \in BasePaths}

\* authenticating: every combination of the credentials and TLS options
Opt(v) == {"", v}

AuthConfs ==
  {MakeConf(t, r, s, jr, jk, ap, sn, ca, CertsDir) :
     t \in {"", "tok-good", "tok-bad"}, r \in Opt("role"), s \in Opt("secret"),
     jr \in Opt("jwt-role"), jk \in Opt("jwt-key"), ap \in Opt("auth"),
     sn \in Opt("vault.internal"), ca \in Opt("/etc/ca.pem")}

\* certificates with every SAN extension of at most MaxSanLen names
RECURSIVE SeqsUpTo(_, _)
SeqsUpTo(S, n) ==
  IF n = 0 THEN {<<>>}
  ELSE LET shorter == SeqsUpTo(S, n - 1)
       IN shorter \cup {Append(q, x) : q \in shorter, x \in S}

SanCerts ==
  {CertB} \cup {X509(7, <<BasicConstraints, SanExt(names)>>) :
                  names \in SeqsUpTo(GeneralNames, MaxSanLen) \ {<<>>}}

SanFss ==
  {MakeFs(File(c, "\n"), File(KeyBody, "\n"), File(ChainBody, "\n"),
          File(FullchainBody, "\n")) : c \in SanCerts}

(***************************************************************************)
(* Specifications                                                          *)
(***************************************************************************)
Init == InitWith(DeployConfs, {GoodFs})

Next ==
  \/ \E a \in LoginResponses, j \in LoginResponses : Construct(a, j)
  \/ \E d \in Domains, r \in AllResponses : DeployCert(d, r)
  \/ \E d \in Domains, r \in AllResponses : RenewDeploy(Lineage(d), r)
  \/ \E n \in FileNames : \E c \in Contents(n) : WriteFile(n, c)

Spec == Init /\ [][Next]_vars

InitAuth == InitWith(AuthConfs, {GoodFs})

NextAuth ==
  \/ \E a \in LoginResponses, j \in LoginResponses : Construct(a, j)
  \/ Prepare
  \/ \E d \in Domains, r \in AllResponses : DeployCert(d, r)
  \/ \E d \in Domains, r \in AllResponses : RenewDeploy(Lineage(d), r)

SpecAuth == InitAuth /\ [][NextAuth]_vars

InitSan == InitWith(DeployConfs, SanFss)

NextSan ==
  \/ \E a \in LoginResponses, j \in LoginResponses : Construct(a, j)
  \/ \E d \in Domains, r \in AllResponses : DeployCert(d, r)

SpecSan == InitSan /\ [][NextSan]_vars

(***************************************************************************)
(* Properties                                                              *)
(***************************************************************************)
DeployOps == {"deploy_cert", "renew_deploy"}

HasToken == Conf("token") /= ""
HasApprole == Conf("role-id") /= "" /\ Conf("secret-id") /= ""
HasJwt == Conf("jwt-role") /= "" /\ Conf("jwt-key") /= ""

\* C1: once the plugin is constructed exactly one authentication strategy has
\* been applied, by the precedence token > approle > JWT: with a token no login
\* call is made and the token is the client's, with approle credentials and no
\* token the approle login is the only call, with JWT credentials alone the JWT
\* login is the only call, and with no credentials no call is made and the
\* client holds no token.
C1_AuthPrecedence ==
  pc /= "new" =>
    /\ HasToken => logins = <<>> /\ client.token = Conf("token")
    /\ (~HasToken /\ HasApprole) => Len(logins) = 1 /\ logins[1].method = "approle"
    /\ (~HasToken /\ ~HasApprole /\ HasJwt) => Len(logins) = 1 /\ logins[1].method = "jwt"
    /\ (~HasToken /\ ~HasApprole /\ ~HasJwt) => logins = <<>> /\ client.token = ""

\* C2 as stated: whenever the store does not accept the client's token, a
\* deploy_cert or renew_deploy call ends in the 'Not authenticated' error with
\* no file read and no create_or_update_secret call, whatever the host called
\* before.
C2_GateOnEveryDeploy ==
  (last.op \in DeployOps /\ client.token \notin ValidTokens) =>
    /\ last.result = "PluginError: Not authenticated"
    /\ last.reads = <<>>
    /\ last.writes = <<>>

\* C2 amended: a prepare call made while the store does not accept the
\* client's token ends in the 'Not authenticated' error, having read no file
\* and made no create_or_update_secret call.
C2_PrepareGate ==
  (last.op = "prepare" /\ client.token \notin ValidTokens) =>
    /\ last.result = "PluginError: Not authenticated"
    /\ last.reads = <<>>
    /\ last.writes = <<>>

C2_Witness ==
  /\ last.op = "prepare"
  /\ client.token \notin ValidTokens
  /\ last.result = "PluginError: Not authenticated"

\* a deploy of the current files cannot get past reading and parsing
InputFails ==
  \/ ~fs["cert.pem"].readable
  \/ ~fs["cert.pem"].body.wellformed
  \/ ~fs["privkey.pem"].readable
  \/ ~fs["fullchain.pem"].readable

\* C3: a deploy_cert call (direct or through renew_deploy) made while the
\* certificate, key or fullchain file is unreadable, or the certificate does
\* not parse, ends in an error, makes no create_or_update_secret call and
\* leaves the store unchanged.
C3_FailedInputNoWrite ==
  [][(fs' = fs /\ last'.op \in DeployOps /\ InputFails) =>
       /\ last'.writes = <<>>
       /\ last'.result \in {"IOError", "crypto.Error"}
       /\ store' = store]_vars

C3_Witness ==
  /\ last.op = "deploy_cert"
  /\ fs["cert.pem"].readable /\ fs["cert.pem"].body.wellformed
  /\ ~fs["privkey.pem"].readable
  /\ last.reads = <<"cert.pem", "privkey.pem">>
  /\ last.result = "IOError"
  /\ store /= EmptyMap

\* C4: when tls-cacert is configured the session of the constructed client
\* trusts that CA bundle, with and without tls-server-name.
C4_CaBundleTrusted ==
  (pc = "ready" /\ Conf("tls-cacert") /= "") => session.ca_certs = Conf("tls-cacert")

\* C5 as stated: every write goes to the configured mount and to the path
\* basePath, "/", domain when a base path is configured, to domain otherwise.
C5_PathIsBaseSlashDomain ==
  \A i \in 1..Len(last.writes) :
    /\ last.writes[i].mount_point = conf["mount"]
    /\ last.writes[i].path =
         IF conf["path"] /= <<>> THEN conf["path"] \o <<"/">> \o last.domain
         ELSE last.domain

\* C5 amended: every write goes to the configured mount and to the path
\* os.path.join(basePath, domain): basePath, "/", domain when the base path
\* does not end in "/", basePath immediately followed by domain when it does,
\* and domain alone when no base path is configured.
C5_PathIsJoin ==
  \A i \in 1..Len(last.writes) :
    /\ last.writes[i].mount_point = conf["mount"]
    /\ last.writes[i].path =
         IF conf["path"] = <<>> THEN last.domain
         ELSE IF conf["path"][Len(conf["path"])] = "/" THEN conf["path"] \o last.domain
         ELSE conf["path"] \o <<"/">> \o last.domain

C5_Witness ==
  /\ last.op = "deploy_cert"
  /\ conf["path"] = <<"c", "e", "r", "t", "s", "/">>
  /\ last.writes /= <<>>
  /\ last.writes[1].path = <<"c", "e", "r", "t", "s", "/", "a", ".", "c">>

\* the DNS-type names of the certificate's SAN extension, in order
RECURSIVE DnsOf(_)
DnsOf(names) ==
  IF names = <<>> THEN <<>>
  ELSE (IF Head(names).type = "DNS" THEN <<Head(names).value>> ELSE <<>>)
       \o DnsOf(Tail(names))

RECURSIVE SanDns(_)
SanDns(extensions) ==
  IF extensions = <<>> THEN <<>>
  ELSE (IF Head(extensions).short_name = "subjectAltName"
          THEN DnsOf(Head(extensions).names) ELSE <<>>) \o SanDns(Tail(extensions))

\* C6: the payload written has a domains field equal to the DNS-type SAN
\* entries of the certificate, in order and without the other entries, when
\* there is at least one, and no domains field when there is none.
C6_DomainsAreSanDns ==
  \A i \in 1..Len(last.writes) :
    LET dns == SanDns(fs["cert.pem"].body.extensions)
        secret == last.writes[i].secret
    IN IF dns /= <<>>
         THEN "domains" \in DOMAIN secret /\ secret["domains"] = dns
         ELSE "domains" \notin DOMAIN secret

C8_LatestAtPath ==
  \A d \in DOMAIN latest :
    LET k == <<latest[d].mount_point, latest[d].path>>
    IN k \in DOMAIN store /\ store[k] = latest[d].secret

C8_OnlyOwnPath ==
  /\ DOMAIN store \subseteq DOMAIN store'
  /\ \A k \in DOMAIN store' :
       (k \notin DOMAIN store \/ store'[k] /= store[k]) =>
         /\ last'.op \in DeployOps
         /\ last'.result = "ok"
         /\ k = <<last'.writes[1].mount_point, last'.writes[1].path>>
         /\ store'[k] = last'.writes[1].secret

C8_Idempotent == [](C8_LatestAtPath) /\ [][C8_OnlyOwnPath]_vars

C8_Witness ==
  /\ DOMAIN latest = {<<"a", ".", "c">>, <<"b", ".", "c">>}
  /\ latest[<<"a", ".", "c">>].secret /= latest[<<"b", ".", "c">>].secret
  /\ Cardinality(DOMAIN store) = 2
  /\ last.result = "ok" /\ last.writes /= <<>>

C10_PayloadVerbatim ==
  \A i \in 1..Len(last.writes) :
    LET secret == last.writes[i].secret
    IN /\ secret.type = "urn:scheme:type:certificate"
       /\ secret.cert = [body |-> fs["cert.pem"].body, eol |-> fs["cert.pem"].eol]
       /\ secret.key = [body |-> fs["privkey.pem"].body, eol |-> fs["privkey.pem"].eol]
       /\ secret.chain = [body |-> fs["fullchain.pem"].body, eol |-> fs["fullchain.pem"].eol]
       /\ last.reads = <<"cert.pem", "privkey.pem", "fullchain.pem">>

\* C10 amended: cert, key and chain of every payload written are the contents
\* of the certificate, key and fullchain files as text-mode reads return them,
\* that is with every line terminator turned into "\n"; type is the fixed tag,
\* and the chain file is not read.
C10_PayloadFromTextReads ==
  \A i \in 1..Len(last.writes) :
    LET secret == last.writes[i].secret
    IN /\ secret.type = "urn:scheme:type:certificate"
       /\ secret.cert = [body |-> fs["cert.pem"].body, eol |-> "\n"]
       /\ secret.key = [body |-> fs["privkey.pem"].body, eol |-> "\n"]
       /\ secret.chain = [body |-> fs["fullchain.pem"].body, eol |-> "\n"]
       /\ last.reads = <<"cert.pem", "privkey.pem", "fullchain.pem">>

C10_Witness ==
  /\ last.op = "deploy_cert"
  /\ last.writes /= <<>>
  /\ fs["cert.pem"].eol = "\r\n"
  /\ fs["privkey.pem"].eol = "\r"
  /\ ~fs["chain.pem"].readable

====
